---- MODULE Spec2Model ----
(***************************************************************************)
(* State-machine model of the two serial protocol engines of the           *)
(* rf_generators package:                                                  *)
(*   Profile A  Cesar1312     (cesar_1312.py):   ACK/NAK handshake, XOR    *)
(*   Profile B  CitoPlus1310  (cito_plus_1310.py): CRC16, echo check       *)
(* Python values keep their type: a bytes object is a sequence of numbers  *)
(* 0..255, an int is a number, and where the code compares or converts     *)
(* values of different types the value carries a tag (PyBytes / PyInt).    *)
(* The serial device is the environment: every read(n) returns any string  *)
(* of at most n bytes (fewer than n bytes is a timeout).                    *)
(***************************************************************************)
EXTENDS Integers, Sequences, FiniteSets, TLC

(***************************************************************************)
(* Bounds of the model                                                     *)
(***************************************************************************)
\* largest value the caller assigns to Cesar1312.retries (the default, 3, is
\* there without any assignment)
MaxRetries == 2
\* most bytes the device delivers to one read() call
MaxRead == 1

\* bytes the Profile A device may send: closed under XOR, holds the ACK byte
\* (6), headers with length selector 0, 1, 6 and the sentinel 7
DeviceBytes == {0, 1, 6, 7}

(***************************************************************************)
(* Python helpers                                                          *)
(***************************************************************************)
Min(a, b) == IF a < b THEN a ELSE b

\* bit w (a power of two) of a ^ b
XorBit(a, b, w) == w * (((a \div w) + (b \div w)) % 2)

\* a ^ b on ints of at most 16 bits, p being the pair <<a, b>>
XorWord[p \in (0..65535) \X (0..65535)] ==
    XorBit(p[1], p[2], 1) + XorBit(p[1], p[2], 2) + XorBit(p[1], p[2], 4)
    + XorBit(p[1], p[2], 8) + XorBit(p[1], p[2], 16) + XorBit(p[1], p[2], 32)
    + XorBit(p[1], p[2], 64) + XorBit(p[1], p[2], 128) + XorBit(p[1], p[2], 256)
    + XorBit(p[1], p[2], 512) + XorBit(p[1], p[2], 1024)
    + XorBit(p[1], p[2], 2048) + XorBit(p[1], p[2], 4096)
    + XorBit(p[1], p[2], 8192) + XorBit(p[1], p[2], 16384)
    + XorBit(p[1], p[2], 32768)

Xor(a, b) == XorWord[<<a, b>>]

PyBytes(s) == [t |-> "bytes", v |-> s]
PyInt(n) == [t |-> "int", v |-> n]
PyNone == [t |-> "None", v |-> <<>>]
\* Python ==: objects of different types (bytes, int) are never equal
PyEq(a, b) == a.t = b.t /\ a.v = b.v

\* what serial.Serial.read(n) may return: at most n bytes, fewer on timeout
ReadReplies(n, alphabet) ==
    UNION {[1..k -> alphabet] : k \in 0..Min(n, MaxRead)}

(***************************************************************************)
(* Profile A: Cesar1312                                                    *)
(***************************************************************************)
\* self._retries after __init__
DefaultRetries == 3
\* self._ack, self._nak after __init__ (_bit_order_reversed is False there)
AckByte == 6
NakByte == 21
_ack == <<AckByte>>
_nak == <<NakByte>>

\* the frame handed to query: _make_pkg(1, None) of the rf setter at the
\* default address 1 (test_make_pkg_no_data)
Packages == {<<8, 1, 9>>}

VARIABLES
    self_retries,           \* Cesar1312._retries
    pc,                     \* position of the caller inside query
    package,                \* query's argument
    retries,                \* query's local retry counter
    got_ack,
    got_pkg,
    response,               \* ACK-phase byte read
    header,
    cmd,
    optional_data_length,   \* <<>> stands for None
    dlength,
    data,
    checksum,
    pkg,                    \* the received frame as reassembled
    result,                 \* how query ended
    ret,                    \* the bytes query returned
    wire_out,               \* every bytes object written to the port, in order
    n_ack_reads,            \* read() calls of the ACK phase
    n_rx_reads,             \* read() calls of the receive phase
    n_rx_frames,            \* receive attempts started
    caller,                 \* who called query: "query" (a getter) or "send_cmd"
    sc_result,              \* how send_cmd ended
    sc_warning              \* the text send_cmd passed to warn(), "" if none

varsA == <<self_retries, pc, package, retries, got_ack, got_pkg, response,
           header, cmd, optional_data_length, dlength, data, checksum, pkg,
           result, ret, wire_out, n_ack_reads, n_rx_reads, n_rx_frames,
           caller, sc_result, sc_warning>>

VARIABLES
    b_pc,                   \* "unbuilt", "idle", "sent", "done", "ce_done"
    py_optimize,            \* the interpreter runs with -O: assert is skipped
    b_byte_order,           \* CitoPlus1310._byte_order
    b_header_as_short,      \* CitoPlus1310._header_as_short
    b_address,              \* CitoPlus1310._address
    b_pkg,                  \* _query_cmd's argument pkg
    b_write_cmd,            \* _query_cmd's argument write_cmd
    b_wire_out,             \* every bytes object written to the port, in order
    b_reply,                \* what the device sent in answer to the last write
    b_wire_in,              \* the part of it not read yet
    b_reads,                \* what each read() call returned, in order
    b_asked,                \* the size each read() call asked for, in order
    b_fn_code,              \* _check_exception's arguments when called directly
    b_exc_code,
    b_result,               \* how _query_cmd / _check_exception ended
    b_ret,                  \* the bytes _query_cmd returned
    b_error                 \* code and text carried by the OSError raised

varsB == <<b_pc, py_optimize, b_byte_order, b_header_as_short, b_address,
           b_pkg, b_write_cmd, b_wire_out, b_reply, b_wire_in, b_reads,
           b_asked, b_fn_code, b_exc_code, b_result, b_ret, b_error>>

VARIABLES
    self_address,           \* Cesar1312._address
    self_bit_order_reversed, \* Cesar1312._bit_order_reversed
    self_byte_order,        \* Cesar1312._byte_order
    e_pc,                   \* "idle", or "done" after a call that builds bytes
    e_op,                   \* the call: "address", "make_data", "make_pkg", "encode"
    e_args,                 \* its arguments
    e_data,                 \* the data bytes handed to _make_pkg
    e_out                   \* what it returned, or the exception it raised

varsE == <<self_address, self_bit_order_reversed, self_byte_order, e_pc, e_op,
           e_args, e_data, e_out>>

VARIABLES
    self_offline,           \* Cesar1312._offline
    b_offline,              \* CitoPlus1310._offline
    b_prop                  \* how the property that called _query_cmd ended

varsO == <<self_offline, b_offline, b_prop>>

vars == <<varsA, varsB, varsE, varsO>>

\* a value assigned to retries counts as a loop bound only when positive
Max0(n) == IF n > 0 THEN n ELSE 0

\* how often the bytes object b was written to the port
CountOf(seq, b) == Cardinality({i \in DOMAIN seq : seq[i] = b})

\* XOR of s[lo..hi]; ^ is associative, so the loop of lines 335-337 is
\* evaluated by halves, which keeps the evaluation shallow on long frames
RECURSIVE XorRange(_, _, _)
XorRange(s, lo, hi) ==
    IF lo > hi THEN 0
    ELSE IF lo = hi THEN s[lo]
    ELSE LET mid == (lo + hi) \div 2
         IN Xor(XorRange(s, lo, mid), XorRange(s, mid + 1, hi))

\* XOR of data[1..n]
XorFold(s, n) == XorRange(s, 1, n)

\* (mutant) the loop starts from 0 and never takes in data[0]
_calculate_checksum_SkipsFirst(d) == <<XorRange(d, 2, Len(d))>>

\* Cesar1312._calculate_checksum: a bytes object of length one (data[0] of an
\* empty argument is an IndexError, which the callers below rule out)
_calculate_checksum(d) == <<XorFold(d, Len(d))>>

\* int(b.hex(), 16) of a bytes object that is not empty: its bytes as one
\* numeral, the first byte the most significant
RECURSIVE HexValue(_)
HexValue(b) ==
    IF Len(b) = 1 THEN b[1]
    ELSE (256 * HexValue(SubSeq(b, 1, Len(b) - 1))) + b[Len(b)]

\* the characters of f"{n:0{w}b}" as digits, the most significant first: w is
\* the least number of digits
RECURSIVE BinDigits(_, _)
BinDigits(n, w) ==
    IF n < 2 /\ w <= 1 THEN <<n>>
    ELSE Append(BinDigits(n \div 2, w - 1), n % 2)

\* int(s, 2) of a string of binary digits
RECURSIVE FromBin(_)
FromBin(d) ==
    IF d = <<>> THEN 0
    ELSE (2 * FromBin(SubSeq(d, 1, Len(d) - 1))) + d[Len(d)]

\* (mutant) the numeral is cut after four digits
_parse_header_Split4(hdr) ==
    LET hdr_bin == BinDigits(HexValue(hdr), 8)
    IN <<FromBin(SubSeq(hdr_bin, 1, 4)), FromBin(SubSeq(hdr_bin, 5, Len(hdr_bin)))>>

\* Cesar1312._parse_header (lines 363-366), on a header that is not empty:
\* the 8-digit binary numeral of the header, cut after its fifth digit
_parse_header(hdr) ==
    LET hdr_bin == BinDigits(HexValue(hdr), 8)
    IN <<FromBin(SubSeq(hdr_bin, 1, 5)), FromBin(SubSeq(hdr_bin, 6, Len(hdr_bin)))>>

\* (mutant) the checksum byte itself is left out of the test
ChecksumIsZero_SkipsLast(p) == XorFold(p, Len(p) - 1) = 0

\* the test of line 226: the checksum, a bytes object, against the int 0
ChecksumIsZero(p) == PyEq(PyBytes(_calculate_checksum(p)), PyInt(0))

\* the length selector that announces a length-extension byte (line 206)
SelectorExtended == 7

\* (mutant) one attempt too many
LoopGuard_OffByOne(r, limit) == r <= limit

\* (mutant) a negative count is taken by its magnitude
LoopGuard_Magnitude(r, limit) == r < (IF limit < 0 THEN 0 - limit ELSE limit)

\* the loop conditions of lines 179 and 195
LoopGuard(r, limit) == r < limit

\* (mutant) any byte received counts as the acknowledgement
IsAck_AnyByte(r) == r # <<>>

\* the test of line 184
IsAck(r) == PyEq(PyBytes(r), PyBytes(_ack))

InitA ==
    /\ self_retries = DefaultRetries
    /\ pc = "idle"
    /\ package = <<>>
    /\ retries = 0
    /\ got_ack = FALSE
    /\ got_pkg = FALSE
    /\ response = <<>>
    /\ header = <<>>
    /\ cmd = <<>>
    /\ optional_data_length = <<>>
    /\ dlength = 0
    /\ data = <<>>
    /\ checksum = <<>>
    /\ pkg = <<>>
    /\ result = "none"
    /\ ret = <<>>
    /\ wire_out = <<>>
    /\ n_ack_reads = 0
    /\ n_rx_reads = 0
    /\ n_rx_frames = 0
    /\ caller = "query"
    /\ sc_result = "none"
    /\ sc_warning = ""

\* the values assigned to retries: the setter takes any (line 129), so zero
\* and a negative count are among them
RetryValues == (0 - 1)..MaxRetries

\* retries.setter: stores any value
SetRetries(v) ==
    /\ pc = "idle"
    /\ self_retries' = v
    /\ UNCHANGED <<pc, package, retries, got_ack, got_pkg, response, header,
                   cmd, optional_data_length, dlength, data, checksum, pkg,
                   result, ret, wire_out, n_ack_reads, n_rx_reads, n_rx_frames,
                   caller, sc_result, sc_warning, varsB, varsE, varsO>>

\* a fresh frame of query: its locals before line 177 runs
FreshLocals ==
    /\ retries' = 0
    /\ got_ack' = FALSE
    /\ got_pkg' = FALSE
    /\ response' = <<>>
    /\ header' = <<>>
    /\ cmd' = <<>>
    /\ optional_data_length' = <<>>
    /\ dlength' = 0
    /\ data' = <<>>
    /\ checksum' = <<>>
    /\ pkg' = <<>>
    /\ result' = "none"
    /\ ret' = <<>>
    /\ wire_out' = <<>>
    /\ n_ack_reads' = 0
    /\ n_rx_reads' = 0
    /\ n_rx_frames' = 0
    /\ sc_result' = "none"
    /\ sc_warning' = ""

\* query is called by a property getter (lines 97, 112): lines 177-178
QueryCall(p) ==
    /\ pc = "idle"
    /\ b_pc \in {"unbuilt", "idle"}
    /\ pc' = "ack_loop"
    /\ package' = p
    /\ caller' = "query"
    /\ FreshLocals
    /\ UNCHANGED <<self_retries, varsB, varsE, varsO>>

\* send_cmd is called by a property setter (lines 105, 120, 141, 152) and
\* calls query: line 251, then lines 177-178
SendCmdEnter(p) ==
    /\ pc = "idle"
    /\ b_pc \in {"unbuilt", "idle"}
    /\ pc' = "ack_loop"
    /\ package' = p
    /\ caller' = "send_cmd"
    /\ FreshLocals
    /\ UNCHANGED self_retries

SendCmdCall(p) == SendCmdEnter(p) /\ UNCHANGED <<varsB, varsE, varsO>>

\* lines 179-180: the loop test holds, the frame is written
\* An instrument built with offline=True has no attribute _inst (line 37):
\* self._inst.write raises AttributeError before anything is written.
AckWrite ==
    /\ pc = "ack_loop"
    /\ LoopGuard(retries, self_retries)
    /\ IF self_offline
       THEN /\ wire_out' = wire_out
            /\ result' = "AttributeError"
            /\ pc' = "done"
       ELSE /\ wire_out' = Append(wire_out, package)
            /\ result' = result
            /\ pc' = "ack_read"
    /\ UNCHANGED <<self_retries, package, retries, got_ack, got_pkg, response,
                   header, cmd, optional_data_length, dlength, data, checksum,
                   pkg, ret, n_ack_reads, n_rx_reads, n_rx_frames,
                   caller, sc_result, sc_warning, varsB, varsE, varsO>>

\* lines 181-188 and, on ACK, 193-194
AckRead(r) ==
    /\ pc = "ack_read"
    /\ response' = r
    /\ n_ack_reads' = n_ack_reads + 1
    /\ IF IsAck(r)
       THEN /\ got_ack' = TRUE
            /\ retries' = 0
            /\ pc' = "rx_loop"
       ELSE /\ got_ack' = got_ack
            /\ retries' = retries + 1
            /\ pc' = "ack_loop"
    /\ UNCHANGED <<self_retries, package, got_pkg, header, cmd,
                   optional_data_length, dlength, data, checksum, pkg, result,
                   ret, wire_out, n_rx_reads, n_rx_frames,
                   caller, sc_result, sc_warning, varsB, varsE, varsO>>

\* lines 179, 190-191: the loop ends without ACK
AckExhausted ==
    /\ pc = "ack_loop"
    /\ ~LoopGuard(retries, self_retries)
    /\ result' = "OSError_no_ack"
    /\ pc' = "done"
    /\ UNCHANGED <<self_retries, package, retries, got_ack, got_pkg, response,
                   header, cmd, optional_data_length, dlength, data, checksum,
                   pkg, ret, wire_out, n_ack_reads, n_rx_reads, n_rx_frames,
                   caller, sc_result, sc_warning, varsB, varsE, varsO>>

\* lines 195-196: the loop test holds, the header byte is read. The locals of
\* the previous attempt are dropped here: each is assigned again (lines 199,
\* 205, 212, 216, 220) before the code reads it
RxHeader(b) ==
    /\ pc = "rx_loop"
    /\ LoopGuard(retries, self_retries)
    /\ header' = b
    /\ cmd' = <<>>
    /\ optional_data_length' = <<>>
    /\ dlength' = 0
    /\ data' = <<>>
    /\ checksum' = <<>>
    /\ pkg' = <<>>
    /\ n_rx_reads' = n_rx_reads + 1
    /\ n_rx_frames' = n_rx_frames + 1
    /\ pc' = "rx_cmd"
    /\ UNCHANGED <<self_retries, package, retries, got_ack, got_pkg, response,
                   result, ret, wire_out, n_ack_reads,
                   caller, sc_result, sc_warning, varsB, varsE, varsO>>

\* lines 199-206: the command byte is read, then the header is parsed;
\* int(hdr.hex(), 16) of an empty header is a ValueError
RxCmd(b) ==
    /\ pc = "rx_cmd"
    /\ cmd' = b
    /\ n_rx_reads' = n_rx_reads + 1
    /\ optional_data_length' = <<>>
    /\ IF header = <<>>
       THEN /\ result' = "ValueError"
            /\ pc' = "done"
            /\ dlength' = dlength
       ELSE /\ result' = result
            /\ dlength' = _parse_header(header)[2]
            /\ pc' = IF dlength' = SelectorExtended THEN "rx_optlen" ELSE "rx_data"
    /\ UNCHANGED <<self_retries, package, retries, got_ack, got_pkg, response,
                   header, data, checksum, pkg, ret, wire_out, n_ack_reads,
                   n_rx_frames,
                   caller, sc_result, sc_warning, varsB, varsE, varsO>>

\* lines 207-210: the length-extension byte; int("", 16) is a ValueError
RxOptLen(b) ==
    /\ pc = "rx_optlen"
    /\ optional_data_length' = b
    /\ n_rx_reads' = n_rx_reads + 1
    /\ IF b = <<>>
       THEN /\ result' = "ValueError"
            /\ pc' = "done"
            /\ dlength' = dlength
       ELSE /\ result' = result
            /\ dlength' = b[1]
            /\ pc' = "rx_data"
    /\ UNCHANGED <<self_retries, package, retries, got_ack, got_pkg, response,
                   header, cmd, data, checksum, pkg, ret, wire_out, n_ack_reads,
                   n_rx_frames,
                   caller, sc_result, sc_warning, varsB, varsE, varsO>>

\* line 212
RxData(d) ==
    /\ pc = "rx_data"
    /\ data' = d
    /\ n_rx_reads' = n_rx_reads + 1
    /\ pc' = "rx_checksum"
    /\ UNCHANGED <<self_retries, package, retries, got_ack, got_pkg, response,
                   header, cmd, optional_data_length, dlength, checksum, pkg,
                   result, ret, wire_out, n_ack_reads, n_rx_frames,
                   caller, sc_result, sc_warning, varsB, varsE, varsO>>

\* lines 220-224: the frame as reassembled from what was read
AssemblePkg(h, c, o, d, k) == h \o c \o (IF o # <<>> THEN o ELSE <<>>) \o d \o k

\* (mutant) the request frame is sent again instead of the NAK byte
NakReply_Resend == package

\* what line 232 writes
NakReply == _nak

\* lines 216-232 and, on success, 234-237
RxChecksum(b) ==
    /\ pc = "rx_checksum"
    /\ checksum' = b
    /\ n_rx_reads' = n_rx_reads + 1
    /\ pkg' = AssemblePkg(header, cmd, optional_data_length, data, b)
    /\ IF ChecksumIsZero(pkg')
       THEN /\ wire_out' = Append(wire_out, _ack)
            /\ got_pkg' = TRUE
            /\ retries' = retries
            /\ result' = "returned"
            /\ ret' = data
            /\ pc' = "done"
       ELSE /\ wire_out' = Append(wire_out, NakReply)
            /\ got_pkg' = got_pkg
            /\ retries' = retries + 1
            /\ result' = result
            /\ ret' = ret
            /\ pc' = "rx_loop"
    /\ UNCHANGED <<self_retries, package, got_ack, response, header, cmd,
                   optional_data_length, dlength, data, n_ack_reads,
                   n_rx_frames,
                   caller, sc_result, sc_warning, varsB, varsE, varsO>>

\* lines 195, 234-235: the loop ends without a valid frame
RxExhausted ==
    /\ pc = "rx_loop"
    /\ ~LoopGuard(retries, self_retries)
    /\ result' = "OSError_no_pkg"
    /\ pc' = "done"
    /\ UNCHANGED <<self_retries, package, retries, got_ack, got_pkg, response,
                   header, cmd, optional_data_length, dlength, data, checksum,
                   pkg, ret, wire_out, n_ack_reads, n_rx_reads, n_rx_frames,
                   caller, sc_result, sc_warning, varsB, varsE, varsO>>

\* query's frame is left (return or raise): its locals are gone
QueryLeave ==
    /\ pc = "done"
    /\ caller = "query"
    /\ pc' = "idle"
    /\ package' = <<>>
    /\ FreshLocals
    /\ UNCHANGED <<self_retries, caller, varsB, varsE, varsO>>

\* Cesar1312._csr_codes
_csr_codes ==
    [c \in {0, 1, 2, 4, 5, 7, 9, 19, 50, 51, 99} |->
        CASE c = 0 -> "OK"
          [] c = 1 -> "Command rejected because unit is in wrong control mode."
          [] c = 2 -> "Command rejected because RF output is on."
          [] c = 4 -> "Command rejected because data sent is out of range."
          [] c = 5 -> "Command rejected because User Port RF signal is off."
          [] c = 7 -> "Command rejected because active fault(s) exist in generator."
          [] c = 9 -> "Command rejected because the data byte count is incorrect."
          [] c = 19 -> "Command rejected because the recipe mode is active"
          [] c = 50 -> "Command rejected because the frequency is out of range."
          [] c = 51 -> "Command rejected because the duty cycle is out of range."
          [] c = 99 -> "Command not implemented."]

\* send_cmd, lines 251-257, on the outcome of query. An exception of query
\* passes through. `adr, cmd, data = <bytes>` unpacks the returned bytes object
\* into exactly three ints (ValueError otherwise); `data` is then an int, which
\* has no hex() (AttributeError) when non-zero and fails `if data:` when zero.
SendCmdOutcome(res, r) ==
    IF res # "returned" THEN [exc |-> res, warning |-> ""]
    ELSE IF Len(r) # 3 THEN [exc |-> "ValueError_unpack", warning |-> ""]
    ELSE IF r[3] # 0 THEN [exc |-> "AttributeError", warning |-> ""]
    ELSE [exc |-> "ValueError_no_data", warning |-> ""]

\* query has returned or raised into send_cmd: lines 251-257
SendCmdFinish ==
    /\ pc = "done"
    /\ caller = "send_cmd"
    /\ pc' = "sc_done"
    /\ sc_result' = SendCmdOutcome(result, ret).exc
    /\ sc_warning' = SendCmdOutcome(result, ret).warning
    /\ UNCHANGED <<self_retries, package, retries, got_ack, got_pkg, response,
                   header, cmd, optional_data_length, dlength, data, checksum,
                   pkg, result, ret, wire_out, n_ack_reads, n_rx_reads,
                   n_rx_frames, caller, varsB, varsE, varsO>>

\* send_cmd's frame is left
SendCmdLeave ==
    /\ pc = "sc_done"
    /\ pc' = "idle"
    /\ package' = <<>>
    /\ FreshLocals
    /\ UNCHANGED <<self_retries, caller, varsB, varsE, varsO>>

\* the steps of one call of query
QueryStep ==
    \/ AckWrite
    \/ \E r \in ReadReplies(1, DeviceBytes \cup {NakByte}) : AckRead(r)
    \/ AckExhausted
    \/ \E b \in ReadReplies(1, DeviceBytes) : RxHeader(b)
    \/ \E b \in ReadReplies(1, DeviceBytes) : RxCmd(b)
    \/ \E b \in ReadReplies(1, DeviceBytes) : RxOptLen(b)
    \/ \E d \in ReadReplies(dlength, DeviceBytes) : RxData(d)
    \/ \E b \in ReadReplies(1, DeviceBytes) : RxChecksum(b)
    \/ RxExhausted

\* before CitoPlus1310 is constructed
UnbuiltB ==
    /\ b_pc = "unbuilt"
    /\ py_optimize = FALSE
    /\ b_byte_order = "little"
    /\ b_header_as_short = FALSE
    /\ b_address = 0
    /\ b_pkg = <<>>
    /\ b_write_cmd = FALSE
    /\ b_wire_out = <<>>
    /\ b_reply = <<>>
    /\ b_wire_in = <<>>
    /\ b_reads = <<>>
    /\ b_asked = <<>>
    /\ b_fn_code = <<>>
    /\ b_exc_code = <<>>
    /\ b_result = "none"
    /\ b_ret = <<>>
    /\ b_error = <<>>

\* Cesar1312.__init__, lines 43 and 59-64; no call made yet
DefaultAddress == 1

InitE ==
    /\ self_address = DefaultAddress
    /\ self_bit_order_reversed = FALSE
    /\ self_byte_order = "little"
    /\ e_pc = "idle"
    /\ e_op = "none"
    /\ e_args = <<>>
    /\ e_data = PyNone
    /\ e_out = [err |-> "", v |-> <<>>]

\* both instruments as the constructors leave them with offline=False (lines
\* 35 and 27); no property has been used
InitO ==
    /\ self_offline = FALSE
    /\ b_offline = FALSE
    /\ b_prop = "none"

Init == InitA /\ UnbuiltB /\ InitE /\ InitO

Next ==
    \/ \E v \in RetryValues : SetRetries(v)
    \/ \E p \in Packages : QueryCall(p)
    \/ QueryStep
    \/ QueryLeave

Spec == Init /\ [][Next]_vars

\* the instrument driven through its setters: every exchange is a send_cmd
NextSendCmd ==
    \/ \E v \in RetryValues : SetRetries(v)
    \/ \E p \in Packages : SendCmdCall(p)
    \/ QueryStep
    \/ SendCmdFinish
    \/ SendCmdLeave

SpecSendCmd == Init /\ [][NextSendCmd]_vars

\* query runs to its end once called: each read() returns (the port has a
\* timeout), and nothing else runs in the single-threaded caller
FairSpec == Spec /\ WF_vars(QueryStep)

(***************************************************************************)
(* Profile B: CitoPlus1310                                                 *)
(***************************************************************************)
\* longest reply without structure the device sends
MaxGarbage == 3

\* self._address after __init__
DefaultAddressB == 10
\* the function codes of _make_pkg: read and write
FnRead == 65
FnWrite == 66

\* bytes of unstructured replies: the address, both function codes, a function
\* code with the exception bit, and a small number
GarbageBytes == {10, 65, 66, 193, 1}

\* the first n bytes of s, and what follows them
Take(s, n) == SubSeq(s, 1, Min(n, Len(s)))
Drop(s, n) == SubSeq(s, Min(n, Len(s)) + 1, Len(s))

RECURSIVE Pow256(_)
Pow256(k) == IF k = 0 THEN 1 ELSE 256 * Pow256(k - 1)

\* int.to_bytes(length, byteorder) of a value that fits
ToBytes(n, length, order) ==
    [i \in 1..length |->
        IF order = "little" THEN (n \div Pow256(i - 1)) % 256
        ELSE (n \div Pow256(length - i)) % 256]

\* int.from_bytes(x, byteorder): a TypeError unless x is a bytes object
RECURSIVE BytesValue(_, _, _)
BytesValue(b, n, order) ==
    IF n = 0 THEN 0
    ELSE IF order = "little" THEN (b[n] * Pow256(n - 1)) + BytesValue(b, n - 1, order)
    ELSE b[n] + (256 * BytesValue(b, n - 1, order))

IntFromBytes(x, order) ==
    IF x.t # "bytes" THEN [err |-> "TypeError", v |-> 0]
    ELSE [err |-> "", v |-> BytesValue(x.v, Len(x.v), order)]

\* the table of _crc16
Crc16tab ==
  <<
    0, 49345, 49537, 320, 49921, 960, 640, 49729,
    50689, 1728, 1920, 51009, 1280, 50625, 50305, 1088,
    52225, 3264, 3456, 52545, 3840, 53185, 52865, 3648,
    2560, 51905, 52097, 2880, 51457, 2496, 2176, 51265,
    55297, 6336, 6528, 55617, 6912, 56257, 55937, 6720,
    7680, 57025, 57217, 8000, 56577, 7616, 7296, 56385,
    5120, 54465, 54657, 5440, 55041, 6080, 5760, 54849,
    53761, 4800, 4992, 54081, 4352, 53697, 53377, 4160,
    61441, 12480, 12672, 61761, 13056, 62401, 62081, 12864,
    13824, 63169, 63361, 14144, 62721, 13760, 13440, 62529,
    15360, 64705, 64897, 15680, 65281, 16320, 16000, 65089,
    64001, 15040, 15232, 64321, 14592, 63937, 63617, 14400,
    10240, 59585, 59777, 10560, 60161, 11200, 10880, 59969,
    60929, 11968, 12160, 61249, 11520, 60865, 60545, 11328,
    58369, 9408, 9600, 58689, 9984, 59329, 59009, 9792,
    8704, 58049, 58241, 9024, 57601, 8640, 8320, 57409,
    40961, 24768, 24960, 41281, 25344, 41921, 41601, 25152,
    26112, 42689, 42881, 26432, 42241, 26048, 25728, 42049,
    27648, 44225, 44417, 27968, 44801, 28608, 28288, 44609,
    43521, 27328, 27520, 43841, 26880, 43457, 43137, 26688,
    30720, 47297, 47489, 31040, 47873, 31680, 31360, 47681,
    48641, 32448, 32640, 48961, 32000, 48577, 48257, 31808,
    46081, 29888, 30080, 46401, 30464, 47041, 46721, 30272,
    29184, 45761, 45953, 29504, 45313, 29120, 28800, 45121,
    20480, 37057, 37249, 20800, 37633, 21440, 21120, 37441,
    38401, 22208, 22400, 38721, 21760, 38337, 38017, 21568,
    39937, 23744, 23936, 40257, 24320, 40897, 40577, 24128,
    23040, 39617, 39809, 23360, 39169, 22976, 22656, 38977,
    34817, 18624, 18816, 35137, 19200, 35777, 35457, 19008,
    19968, 36545, 36737, 20288, 36097, 19904, 19584, 35905,
    17408, 33985, 34177, 17728, 34561, 18368, 18048, 34369,
    33281, 17088, 17280, 33601, 16640, 33217, 32897, 16448
  >>

\* one round of the loop of _crc16 (lines 457-458)
Crc16Round(crc, dat) == Xor(crc \div 256, Crc16tab[Xor(crc % 256, dat) + 1])

\* the loop of _crc16 from byte i on, crc being the value so far
RECURSIVE Crc16From(_, _, _)
Crc16From(d, i, crc) ==
    IF i > Len(d) THEN crc ELSE Crc16From(d, i + 1, Crc16Round(crc, d[i]))

_crc16(d) == Crc16From(d, 1, 0)

\* CitoPlus1310._exception_codes
_exception_codes ==
    [c \in {0, 1, 2, 3, 4, 5, 8, 128} |->
        CASE c = 0 -> "OK"
          [] c = 1 -> "Illegal function code"
          [] c = 2 -> "Illegal data address"
          [] c = 3 -> "Illegal data value"
          [] c = 4 -> "Slave device failure"
          [] c = 5 -> "Slave device busy"
          [] c = 8 -> "Memory parity error"
          [] c = 128 -> "Device exception"]

\* _exception_codes.get(code, 'Unknown')
ExceptionText(code) ==
    IF code \in DOMAIN _exception_codes THEN _exception_codes[code] ELSE "Unknown"

\* the test of line 140
IsException(fn_code_int) == fn_code_int # FnRead \/ fn_code_int # FnWrite

\* CitoPlus1310._check_exception on Python values: "" when it returns, else
\* the exception raised and what it carries
_check_exception(fn_code, exc_code) ==
    LET fn == IntFromBytes(fn_code, b_byte_order)
        ec == IntFromBytes(exc_code, b_byte_order)
    IN IF fn.err # "" THEN [exc |-> fn.err, carried |-> <<>>]
       ELSE IF IsException(fn.v)
            THEN IF ec.err # "" THEN [exc |-> ec.err, carried |-> <<>>]
                 ELSE [exc |-> "OSError",
                       carried |-> <<ec.v, ExceptionText(ec.v)>>]
       ELSE [exc |-> "", carried |-> <<>>]

\* (mutant) the header is never packed as a short
_make_hdr_NeverShort(fn_code) == <<b_address, fn_code>>

\* CitoPlus1310._make_hdr
_make_hdr(fn_code) ==
    IF b_header_as_short
    THEN ToBytes((b_address * 256) + fn_code, 2, b_byte_order)
    ELSE <<b_address, fn_code>>

\* (mutant) the item count is always written low byte first
ItemCount_LowFirst(order) == <<1, 0>>

\* the payload of a read, line 187: the item count 1 in two bytes
ItemCount(order) == ToBytes(1, 2, order)

\* CitoPlus1310._make_pkg; data is <<>> for None and <<value>> otherwise
_make_pkg_B(cmd_code, d, data_length) ==
    LET fn_code == IF d = <<>> THEN FnRead ELSE FnWrite
        hdr == _make_hdr(fn_code)
        cmdb == ToBytes(cmd_code, 2, b_byte_order)
        dat == IF d # <<>> THEN ToBytes(d[1], data_length, b_byte_order)
               ELSE ItemCount(b_byte_order)
        p == hdr \o cmdb \o dat
    IN p \o ToBytes(_crc16(p), 2, b_byte_order)

\* the end of _query_cmd: outcome, value returned, reads made
Ended(res, rt, rd, ak, carried) ==
    [result |-> res, ret |-> rt, reads |-> rd, asked |-> ak, error |-> carried]

\* (mutant) whatever follows the first three bytes is handed back unchecked
_query_cmd_Unchecked(p, write_cmd, wire) ==
    Ended("returned", Drop(wire, 3), <<wire>>, <<Len(wire)>>, <<>>)

\* CitoPlus1310._query_cmd, lines 98-134, on the bytes `wire` the device sent.
\* Indexing a bytes object gives an int, so addr, fn_code and data_length are
\* ints: the comparison of line 110 is int against bytes, and _check_exception
\* and line 124 pass an int to int.from_bytes.
_query_cmd(p, write_cmd, wire) ==
    LET hdr == Take(wire, 3)
        in1 == Drop(wire, 3)
        swapped == b_header_as_short /\ b_byte_order = "little"
    IN IF Len(hdr) < 3
       THEN Ended("IndexError", <<>>, <<hdr>>, <<3>>, <<>>)
       ELSE
       LET addr == PyInt(IF swapped THEN hdr[3] ELSE hdr[1])
           fn_code == PyInt(hdr[2])
           data_length == PyInt(IF swapped THEN hdr[1] ELSE hdr[3])
           addr_ok == PyEq(addr, PyBytes(ToBytes(b_address, 1, b_byte_order)))
           exc == _check_exception(fn_code, data_length)
       IN IF ~py_optimize /\ ~addr_ok
          THEN Ended("AssertionError", <<>>, <<hdr>>, <<3>>, <<>>)
          ELSE IF exc.exc # ""
          THEN Ended(exc.exc, <<>>, <<hdr>>, <<3>>, exc.carried)
          ELSE IF write_cmd
          THEN LET len_to_read == Len(p) - 3
                   rest == Take(in1, len_to_read)
                   pkg_return == hdr \o rest
               IN IF ~py_optimize /\ p # pkg_return
                  THEN Ended("AssertionError", <<>>, <<hdr, rest>>,
                             <<3, len_to_read>>, <<>>)
                  ELSE Ended("returned", <<>>, <<hdr, rest>>,
                             <<3, len_to_read>>, <<>>)
          ELSE LET n == IntFromBytes(data_length, b_byte_order)
               IN IF n.err # ""
                  THEN Ended(n.err, <<>>, <<hdr>>, <<3>>, <<>>)
                  ELSE LET d == Take(in1, n.v)
                           crc == Take(Drop(in1, n.v), 2)
                           crc_exp == ToBytes(_crc16(hdr \o d), 2, b_byte_order)
                       IN IF ~py_optimize /\ crc # crc_exp
                          THEN Ended("AssertionError", <<>>, <<hdr, d, crc>>,
                                     <<3, n.v, 2>>, <<>>)
                          ELSE Ended("returned", d, <<hdr, d, crc>>,
                                     <<3, n.v, 2>>, <<>>)

\* a reply header in the layout line 101 expects
ReplyHeader(a, fn, third) ==
    IF b_header_as_short /\ b_byte_order = "little"
    THEN <<third, fn, a>> ELSE <<a, fn, third>>

\* a reply to a read: header, data, CRC16 of both in the configured order
ReadReply(a, fn, d) ==
    LET h == ReplyHeader(a, fn, Len(d))
    IN h \o d \o ToBytes(_crc16(h \o d), 2, b_byte_order)

\* the last byte of a reply hit by a line error
Corrupt(r) == [r EXCEPT ![Len(r)] = (r[Len(r)] + 1) % 256]

\* what the device may send after the frame p: nothing or a few bytes without
\* structure, a well-formed reply to a read (possibly from another address, as
\* an exception, or with a damaged CRC), an exception header alone, the echo
\* of p, whole, damaged or cut short
DeviceRepliesB(p) ==
    LET formed == {ReadReply(a, fn, d) :
                      a \in {b_address, b_address + 1},
                      fn \in {FnRead, FnWrite, 193},
                      d \in {<<>>, <<67>>, <<67, 105>>}}
    IN (UNION {[1..k -> GarbageBytes] : k \in 0..MaxGarbage})
         \cup formed
         \cup {Corrupt(r) : r \in formed}
         \cup {ReplyHeader(b_address, 193, c) : c \in {2, 9}}
         \cup {p, Corrupt(p), Take(p, Len(p) - 1)}

\* CitoPlus1310.__init__, under python or python -O
CitoBuild(optimize, offline) ==
    /\ b_pc = "unbuilt"
    /\ pc = "idle"
    /\ b_pc' = "idle"
    /\ py_optimize' = optimize
    /\ b_offline' = offline
    /\ b_address' = DefaultAddressB
    /\ b_byte_order' = "little"
    /\ b_header_as_short' = FALSE
    /\ UNCHANGED <<b_pkg, b_write_cmd, b_wire_out, b_reply, b_wire_in, b_reads,
                   b_asked, b_fn_code, b_exc_code, b_result, b_ret, b_error,
                   varsA, varsE, self_offline, b_prop>>

\* the constructor for a connected instrument
CitoInit(optimize) == CitoBuild(optimize, FALSE)

\* the attributes the tests assign (test_cito_plus_1310.py)
Configure(order, short) ==
    /\ b_pc = "idle"
    /\ e_pc = "idle"
    /\ b_byte_order' = order
    /\ b_header_as_short' = short
    /\ UNCHANGED <<b_pc, py_optimize, b_address, b_pkg, b_write_cmd,
                   b_wire_out, b_reply, b_wire_in, b_reads, b_asked, b_fn_code,
                   b_exc_code, b_result, b_ret, b_error, varsA, varsE, varsO>>

\* (mutant) the frame is sent again, as Profile A does after a NAK
Written_Twice(p) == <<p, p>>

\* what _query_cmd writes to the port: the frame, in one write (line 96)
Written(p) == <<p>>

\* _query_cmd up to line 96: offline, the frame is printed and the call
\* returns None (lines 92-94); else the frame is written and the device answers
QueryCmdSend(p, write_cmd, reply) ==
    /\ b_pc = "idle"
    /\ pc = "idle"
    /\ b_pkg' = p
    /\ b_write_cmd' = write_cmd
    /\ IF b_offline
       THEN /\ b_pc' = "done"
            /\ b_wire_out' = <<>>
            /\ b_reply' = <<>>
            /\ b_wire_in' = <<>>
            /\ b_result' = "returned"
       ELSE /\ b_pc' = "sent"
            /\ b_wire_out' = Written(p)
            /\ b_reply' = reply
            /\ b_wire_in' = reply
            /\ b_result' = "none"
    /\ b_reads' = <<>>
    /\ b_asked' = <<>>
    /\ b_fn_code' = <<>>
    /\ b_exc_code' = <<>>
    /\ b_ret' = <<>>
    /\ b_error' = <<>>
    /\ UNCHANGED <<py_optimize, b_byte_order, b_header_as_short, b_address,
                   varsA, varsE, varsO>>

\* the name getter: lines 55-56
NameGet ==
    /\ b_pc = "idle"
    /\ pc = "idle"
    /\ LET p == _make_pkg_B(10, <<>>, 4)
       IN \E reply \in DeviceRepliesB(p) : QueryCmdSend(p, FALSE, reply)

\* the rf setter through _write_cmd: lines 66-68, 79
RfSet(state) ==
    /\ b_pc = "idle"
    /\ pc = "idle"
    /\ LET p == _make_pkg_B(1001, <<IF state THEN 1 ELSE 0>>, 4)
       IN \E reply \in DeviceRepliesB(p) : QueryCmdSend(p, TRUE, reply)

\* _query_cmd from line 98 to its return or raise
QueryCmdReceive ==
    /\ b_pc = "sent"
    /\ LET o == _query_cmd(b_pkg, b_write_cmd, b_wire_in)
       IN /\ b_result' = o.result
          /\ b_ret' = o.ret
          /\ b_reads' = o.reads
          /\ b_asked' = o.asked
          /\ b_error' = o.error
    /\ b_wire_in' = <<>>
    /\ b_pc' = "done"
    /\ UNCHANGED <<py_optimize, b_byte_order, b_header_as_short, b_address,
                   b_pkg, b_write_cmd, b_wire_out, b_reply, b_fn_code,
                   b_exc_code, varsA, varsE, varsO>>

\* _check_exception called on two bytes objects, as its signature says
CheckExceptionCall(fn_code, exc_code) ==
    /\ b_pc = "idle"
    /\ b_pc' = "ce_done"
    /\ b_fn_code' = fn_code
    /\ b_exc_code' = exc_code
    /\ LET o == _check_exception(PyBytes(fn_code), PyBytes(exc_code))
       IN /\ b_result' = (IF o.exc = "" THEN "returned" ELSE o.exc)
          /\ b_error' = o.carried
    /\ b_pkg' = <<>>
    /\ b_write_cmd' = FALSE
    /\ b_wire_out' = <<>>
    /\ b_reply' = <<>>
    /\ b_wire_in' = <<>>
    /\ b_reads' = <<>>
    /\ b_asked' = <<>>
    /\ b_ret' = <<>>
    /\ UNCHANGED <<py_optimize, b_byte_order, b_header_as_short, b_address,
                   varsA, varsE, varsO>>

\* the caller goes on after a return or an exception
LeaveB ==
    /\ b_pc \in {"done", "ce_done", "prop_done"}
    /\ b_pc' = "idle"
    /\ b_pkg' = <<>>
    /\ b_write_cmd' = FALSE
    /\ b_wire_out' = <<>>
    /\ b_reply' = <<>>
    /\ b_wire_in' = <<>>
    /\ b_reads' = <<>>
    /\ b_asked' = <<>>
    /\ b_fn_code' = <<>>
    /\ b_exc_code' = <<>>
    /\ b_result' = "none"
    /\ b_ret' = <<>>
    /\ b_error' = <<>>
    /\ b_prop' = "none"
    /\ UNCHANGED <<py_optimize, b_byte_order, b_header_as_short, b_address,
                   varsA, varsE, self_offline, b_offline>>

NextB ==
    \/ \E optimize \in BOOLEAN : CitoInit(optimize)
    \/ \E order \in {"little", "big"}, short \in BOOLEAN : Configure(order, short)
    \/ NameGet
    \/ \E state \in BOOLEAN : RfSet(state)
    \/ QueryCmdReceive
    \/ \E fn_code \in {<<FnRead>>, <<FnWrite>>, <<193>>, <<0>>},
          exc_code \in {<<0>>, <<2>>, <<9>>, <<128>>} :
              CheckExceptionCall(fn_code, exc_code)
    \/ LeaveB

SpecB == Init /\ [][NextB]_vars

(***************************************************************************)
(* Profile A: building frames (Cesar1312._make_data, _make_pkg)            *)
(***************************************************************************)
\* a call's outcome: the bytes returned, or the exception raised
Returned(b) == [err |-> "", v |-> b]
Raised(e) == [err |-> e, v |-> <<>>]

RECURSIVE Pow2(_)
Pow2(k) == IF k = 0 THEN 1 ELSE 2 * Pow2(k - 1)

\* number of binary digits of n >= 0
RECURSIVE BitLen(_)
BitLen(n) == IF n < 2 THEN 1 ELSE 1 + BitLen(n \div 2)

\* number of characters of f"{n:0{w}b}": w is a least width, never a greatest
FmtWidth(n, w) == IF BitLen(n) > w THEN BitLen(n) ELSE w

\* the number whose w binary digits are those of n in reverse order
RECURSIVE RevBits(_, _)
RevBits(n, w) ==
    IF w = 0 THEN 0 ELSE ((n % 2) * Pow2(w - 1)) + RevBits(n \div 2, w - 1)

\* (mutant) the numeral is formatted with 7 digits
_reverse_bit_order_Width7(d) == RevBits(d, FmtWidth(d, 7))

\* Cesar1312._reverse_bit_order: int(f"{data:08b}"[::-1], 2)
_reverse_bit_order(d) == RevBits(d, FmtWidth(d, 8))

\* Cesar1312._make_header: int(f"{address:05b}{data_length:03b}", 2); the
\* digits of data_length are appended to those of address, however many
_make_header(address, data_length) ==
    (address * Pow2(FmtWidth(data_length, 3))) + data_length

\* the loop of _make_data (lines 283-284) from pair i on
RECURSIVE MakeDataFrom(_, _, _, _)
MakeDataFrom(length, d, i, data_bytes) ==
    IF i > Min(Len(length), Len(d)) THEN Returned(data_bytes)
    ELSE IF d[i] >= Pow256(length[i]) THEN Raised("OverflowError")
    ELSE MakeDataFrom(length, d, i + 1,
             data_bytes \o ToBytes(d[i], length[i], self_byte_order))

\* Cesar1312._make_data on lists (an int argument is wrapped, lines 274-277)
_make_data(length, d) ==
    LET dr == IF self_bit_order_reversed
              THEN [i \in DOMAIN d |-> _reverse_bit_order(d[i])]
              ELSE d
    IN MakeDataFrom(length, dr, 1, <<>>)

\* (mutant) neither test is made
Rejects_Never(data_length, cmd_number) == FALSE

\* the tests of lines 303 and 306
Rejects(data_length, cmd_number) == data_length > 255 \/ cmd_number > 255

\* Cesar1312._make_pkg; d is PyNone or a bytes object
_make_pkg(cmd_number, d) ==
    LET data_length == IF d.t = "bytes" /\ d.v # <<>> THEN Len(d.v) ELSE 0
        hdr == _make_header(self_address, data_length)
        plain == IF data_length <= 6 THEN <<hdr, cmd_number>>
                 ELSE <<hdr, cmd_number, data_length>>
        p == IF self_bit_order_reversed
             THEN [i \in DOMAIN plain |-> _reverse_bit_order(plain[i])]
             ELSE plain
    IN IF Rejects(data_length, cmd_number) THEN Raised("ValueError")
       ELSE IF \E i \in DOMAIN p : p[i] \notin 0..255 THEN Raised("ValueError")
       ELSE LET q == IF d.t # "None" THEN p \o d.v ELSE p
            IN Returned(q \o _calculate_checksum(q))

\* payload lengths handed to _make_pkg: none, short (up to 6), extended (7 and
\* more), the longest allowed and one more
PayloadLengths == {0, 1, 3, 6, 7, 8, 9, 255, 256}

\* the payloads: None, and bytes 1, 2, 3, ... of each length
Payloads ==
    {PyNone} \cup {PyBytes([i \in 1..n |-> i % 256]) : n \in PayloadLengths}

\* command numbers: those of the setters and tests, the largest and one more
CmdNumbers == {1, 3, 8, 255, 256}

\* integers handed to _make_data, with the byte lengths 1 and 2
DataValues == {0, 1, 6, 255, 256, 300, 1000, 65535, 65536}
DataLengths == {1, 2}

\* values assigned to Cesar1312.address
AddressValues == (0 - 1)..32

\* nothing is being built and no exchange is under way
Resting == e_pc = "idle" /\ pc = "idle"

\* (mutant) the upper limit is one too high
AddressBad_Above32(value) == value < 0 \/ value > 32

\* the test of line 88
AddressBad(value) == value < 0 \/ value > 31

\* the address setter, lines 86-90
SetAddress(value) ==
    /\ Resting
    /\ e_pc' = "done"
    /\ e_op' = "address"
    /\ e_args' = <<value>>
    /\ e_data' = PyNone
    /\ IF AddressBad(value)
       THEN e_out' = Raised("ValueError") /\ self_address' = self_address
       ELSE e_out' = Returned(<<>>) /\ self_address' = value
    /\ UNCHANGED <<self_bit_order_reversed, self_byte_order, varsA, varsB, varsO>>

\* the attributes the tests assign (test_cesar_1312.py)
ConfigureA(reversed, order) ==
    /\ Resting
    /\ self_bit_order_reversed' = reversed
    /\ self_byte_order' = order
    /\ UNCHANGED <<self_address, e_pc, e_op, e_args, e_data, e_out, varsA, varsB, varsO>>

\* a call of _make_data(length, data) with two ints
MakeDataCall(length, value) ==
    /\ Resting
    /\ e_pc' = "done"
    /\ e_op' = "make_data"
    /\ e_args' = <<length, value>>
    /\ e_data' = PyNone
    /\ e_out' = _make_data(<<length>>, <<value>>)
    /\ UNCHANGED <<self_address, self_bit_order_reversed, self_byte_order,
                   varsA, varsB, varsO>>

\* a call of _make_pkg(cmd_number, data)
MakePkgCall(cmd_number, d) ==
    /\ Resting
    /\ e_pc' = "done"
    /\ e_op' = "make_pkg"
    /\ e_args' = <<cmd_number>>
    /\ e_data' = d
    /\ e_out' = _make_pkg(cmd_number, d)
    /\ UNCHANGED <<self_address, self_bit_order_reversed, self_byte_order,
                   varsA, varsB, varsO>>

\* an integer made into a frame, as the setpoint setter does (lines 150-152):
\* _make_pkg(cmd, _make_data(length, value))
EncodeInt(cmd_number, length, value) ==
    /\ Resting
    /\ e_pc' = "done"
    /\ e_op' = "encode"
    /\ e_args' = <<cmd_number, length, value>>
    /\ LET dat == _make_data(<<length>>, <<value>>)
       IN IF dat.err # ""
          THEN e_data' = PyNone /\ e_out' = dat
          ELSE /\ e_data' = PyBytes(dat.v)
               /\ e_out' = _make_pkg(cmd_number, PyBytes(dat.v))
    /\ UNCHANGED <<self_address, self_bit_order_reversed, self_byte_order,
                   varsA, varsB, varsO>>

\* the caller goes on after the return or the exception
LeaveE ==
    /\ e_pc = "done"
    /\ e_pc' = "idle"
    /\ e_op' = "none"
    /\ e_args' = <<>>
    /\ e_data' = PyNone
    /\ e_out' = Returned(<<>>)
    /\ UNCHANGED <<self_address, self_bit_order_reversed, self_byte_order,
                   varsA, varsB, varsO>>

NextEnc ==
    \/ \E value \in AddressValues : SetAddress(value)
    \/ \E reversed \in BOOLEAN, order \in {"little", "big"} :
          ConfigureA(reversed, order)
    \/ \E length \in DataLengths, value \in DataValues : MakeDataCall(length, value)
    \/ \E cmd_number \in CmdNumbers, d \in Payloads : MakePkgCall(cmd_number, d)
    \/ \E length \in DataLengths, value \in DataValues : EncodeInt(8, length, value)
    \/ LeaveE

SpecEnc == Init /\ [][NextEnc]_vars

(***************************************************************************)
(* The header functions of Profile A on their own                          *)
(***************************************************************************)
HeaderAddresses == 0..31
Selectors == 0..7
ByteValues == 0..255

\* a call of the static method _make_header(address, data_length)
MakeHeaderCall(address, data_length) ==
    /\ Resting
    /\ e_pc' = "done"
    /\ e_op' = "make_header"
    /\ e_args' = <<address, data_length>>
    /\ e_data' = PyNone
    /\ e_out' = Returned(_make_header(address, data_length))
    /\ UNCHANGED <<self_address, self_bit_order_reversed, self_byte_order,
                   varsA, varsB, varsO>>

\* a call of the static method _parse_header on one byte, as the test makes it
\* (test_parse_header) and as query does (line 203)
ParseHeaderCall(b) ==
    /\ Resting
    /\ e_pc' = "done"
    /\ e_op' = "parse_header"
    /\ e_args' = <<b>>
    /\ e_data' = PyBytes(<<b>>)
    /\ e_out' = Returned(_parse_header(<<b>>))
    /\ UNCHANGED <<self_address, self_bit_order_reversed, self_byte_order,
                   varsA, varsB, varsO>>

\* the header just made is packed as a byte and parsed:
\* _parse_header(bytes([header])); bytes() takes no value above 255
ParseMadeHeader ==
    /\ e_pc = "done"
    /\ e_op = "make_header"
    /\ e_op' = "round_trip"
    /\ IF e_out.v > 255
       THEN e_data' = PyNone /\ e_out' = Raised("ValueError")
       ELSE /\ e_data' = PyBytes(<<e_out.v>>)
            /\ e_out' = Returned(_parse_header(<<e_out.v>>))
    /\ UNCHANGED <<e_pc, e_args, self_address, self_bit_order_reversed,
                   self_byte_order, varsA, varsB, varsO>>

NextHdr ==
    \/ \E address \in HeaderAddresses, data_length \in Selectors :
          MakeHeaderCall(address, data_length)
    \/ \E b \in ByteValues : ParseHeaderCall(b)
    \/ ParseMadeHeader
    \/ LeaveE

SpecHdr == Init /\ [][NextHdr]_vars

\* what the property setters do with a command and its data (lines 105, 120,
\* 140-141, 152): self.send_cmd(self._make_pkg(cmd, data)); an exception of
\* _make_pkg ends the setter before send_cmd is called
SetterSend(cmd_number, d) ==
    /\ Resting
    /\ e_op' = "setter"
    /\ e_args' = <<cmd_number>>
    /\ e_data' = d
    /\ e_out' = _make_pkg(cmd_number, d)
    /\ IF _make_pkg(cmd_number, d).err # ""
       THEN e_pc' = "done" /\ UNCHANGED varsA
       ELSE e_pc' = "idle" /\ SendCmdEnter(_make_pkg(cmd_number, d).v)
    /\ UNCHANGED <<self_address, self_bit_order_reversed, self_byte_order,
                   varsB, varsO>>

\* commands and payloads at and beyond the limits of _make_pkg
LimitCmds == {1, 256}
LimitPayloads == {PyNone, PyBytes([i \in 1..256 |-> i % 256])}

\* the setters at work: frames are built and, when built, sent
NextSet ==
    \/ \E reversed \in BOOLEAN : ConfigureA(reversed, "little")
    \/ \E cmd_number \in LimitCmds, d \in LimitPayloads : MakePkgCall(cmd_number, d)
    \/ \E cmd_number \in LimitCmds, d \in LimitPayloads : SetterSend(cmd_number, d)
    \/ LeaveE
    \/ QueryStep
    \/ SendCmdFinish
    \/ SendCmdLeave

SpecSet == Init /\ [][NextSet]_vars

\* exchanges under either bit-reversal setting; the device may also answer
\* with the bit-reversed ACK byte
NextRev ==
    \/ \E reversed \in BOOLEAN, order \in {"little", "big"} :
          ConfigureA(reversed, order)
    \/ \E p \in Packages : QueryCall(p)
    \/ QueryStep
    \/ AckRead(<<_reverse_bit_order(AckByte)>>)
    \/ QueryLeave

SpecRev == Init /\ [][NextRev]_vars

(***************************************************************************)
(* Profile B: building frames (CitoPlus1310._make_pkg)                     *)
(***************************************************************************)
\* registers (cmd_code): those of the tests and properties, and the largest
Registers == {1, 10, 1001, 65535}

\* the data argument: <<>> for None (a read), <<value>> for a value to write
WriteValues == {0, 1, 258, 65536}
DataArgs == {<<>>} \cup {<<v>> : v \in WriteValues}

\* the data_length argument: the default 4, and 0 (test_make_pkg) and 2
DataLengthsB == {0, 2, 4}

\* int.to_bytes raises OverflowError for a value that does not fit the length
\* (the values used all fit 4 bytes)
Overflows(cmd_code, d, data_length) ==
    \/ cmd_code >= Pow256(2)
    \/ (d # <<>> /\ data_length < 4 /\ d[1] >= Pow256(data_length))

\* a call of CitoPlus1310._make_pkg(cmd_code, data, data_length)
MakePkgCallB(cmd_code, d, data_length) ==
    /\ b_pc = "idle"
    /\ Resting
    /\ e_pc' = "done"
    /\ e_op' = "make_pkg_b"
    /\ e_args' = <<cmd_code, data_length>>
    /\ e_data' = [t |-> IF d = <<>> THEN "None" ELSE "int", v |-> d]
    /\ e_out' = IF Overflows(cmd_code, d, data_length)
                THEN Raised("OverflowError")
                ELSE Returned(_make_pkg_B(cmd_code, d, data_length))
    /\ UNCHANGED <<self_address, self_bit_order_reversed, self_byte_order,
                   varsA, varsB, varsO>>

NextEncB ==
    \/ \E optimize \in BOOLEAN : CitoInit(optimize)
    \/ \E order \in {"little", "big"}, short \in BOOLEAN : Configure(order, short)
    \/ \E cmd_code \in Registers, d \in DataArgs, data_length \in DataLengthsB :
          MakePkgCallB(cmd_code, d, data_length)
    \/ LeaveE

SpecEncB == Init /\ [][NextEncB]_vars

(***************************************************************************)
(* Instruments built with offline=True                                     *)
(***************************************************************************)
\* Cesar1312.__init__: a new instrument, connected or offline
CesarInit(offline) ==
    /\ Resting
    /\ b_pc \in {"unbuilt", "idle"}
    /\ self_offline' = offline
    /\ self_retries' = DefaultRetries
    /\ self_address' = DefaultAddress
    /\ self_bit_order_reversed' = FALSE
    /\ self_byte_order' = "little"
    /\ UNCHANGED <<pc, package, retries, got_ack, got_pkg, response, header,
                   cmd, optional_data_length, dlength, data, checksum, pkg,
                   result, ret, wire_out, n_ack_reads, n_rx_reads, n_rx_frames,
                   caller, sc_result, sc_warning, e_pc, e_op, e_args, e_data,
                   e_out, varsB, b_offline, b_prop>>

\* the property goes on after _query_cmd: the rf setter (lines 68, 79) is done;
\* the name getter (line 57) calls decode on what came back, which offline is
\* None; an exception of _query_cmd passes through
PropFinish ==
    /\ b_pc = "done"
    /\ b_pc' = "prop_done"
    /\ b_prop' = IF b_result # "returned" THEN b_result
                 ELSE IF b_write_cmd THEN "returned"
                 ELSE IF b_offline THEN "AttributeError"
                 ELSE "returned"
    /\ UNCHANGED <<py_optimize, b_byte_order, b_header_as_short, b_address,
                   b_pkg, b_write_cmd, b_wire_out, b_reply, b_wire_in, b_reads,
                   b_asked, b_fn_code, b_exc_code, b_result, b_ret, b_error,
                   varsA, varsE, self_offline, b_offline>>

\* both instruments, connected or offline, and the commands issued on them
NextOff ==
    \/ \E offline \in BOOLEAN : CesarInit(offline)
    \/ \E optimize \in BOOLEAN, offline \in BOOLEAN : CitoBuild(optimize, offline)
    \/ \E p \in Packages : QueryCall(p)
    \/ \E p \in Packages : SendCmdCall(p)
    \/ QueryStep
    \/ QueryLeave
    \/ SendCmdFinish
    \/ SendCmdLeave
    \/ NameGet
    \/ \E state \in BOOLEAN : RfSet(state)
    \/ QueryCmdReceive
    \/ PropFinish
    \/ LeaveB

SpecOff == Init /\ [][NextOff]_vars

(***************************************************************************)
(* Claims on Profile A                                                     *)
(***************************************************************************)
\* the received frame, once reassembled (line 224), has every field in full
FrameComplete ==
    /\ Len(header) = 1
    /\ Len(cmd) = 1
    /\ Len(optional_data_length) =
           (IF _parse_header(header)[2] = SelectorExtended THEN 1 ELSE 0)
    /\ Len(data) = dlength
    /\ Len(checksum) = 1

\* a receive attempt has been read to its checksum and judged
FrameJudged == pkg # <<>>

FrameXor == XorFold(pkg, Len(pkg))

FramesWritten == CountOf(wire_out, package)
AcksWritten == CountOf(wire_out, _ack)
NaksWritten == CountOf(wire_out, _nak)

\* C1: after the ACK phase, a complete response frame whose bytes XOR to zero
\* makes query write the ACK byte exactly once and return the frame's data.
C1_ValidFrameReturned ==
    (got_ack /\ FrameJudged /\ FrameComplete /\ FrameXor = 0)
        => (result = "returned" /\ ret = data /\ AcksWritten = 1)

\* C2: ACK phase. The frame is written and one byte read, in pairs, at most
\* `retries` times; the phase advances on the first read equal to ACK; OSError
\* (no ACK) is raised exactly when all `retries` reads differ from ACK, and then
\* nothing was read in the receive phase and no ACK or NAK was written.
C2_AckPhaseInv ==
    /\ FramesWritten <= Max0(self_retries)
    /\ FramesWritten = n_ack_reads + (IF pc = "ack_read" THEN 1 ELSE 0)
    /\ (pc \in {"ack_loop", "ack_read"}) => (~got_ack /\ retries = n_ack_reads)
    /\ got_ack => (response = _ack /\ FramesWritten = n_ack_reads)
    /\ (result = "OSError_no_ack") <=> (pc = "done" /\ ~got_ack)
    /\ (result = "OSError_no_ack") =>
          /\ n_ack_reads = Max0(self_retries)
          /\ retries = n_ack_reads
          /\ (n_ack_reads > 0 => response # _ack)
          /\ n_rx_reads = 0
          /\ AcksWritten = 0
          /\ NaksWritten = 0
          /\ Len(wire_out) = FramesWritten

C2_AckPhaseStep ==
    (pc = "ack_read" /\ pc' # pc) =>
        IF response' = _ack
        THEN pc' = "rx_loop" /\ got_ack' /\ wire_out' = wire_out
        ELSE pc' = "ack_loop" /\ ~got_ack' /\ retries' = retries + 1

C2_AckPhase == [](C2_AckPhaseInv) /\ [][C2_AckPhaseStep]_vars

\* the device never sent ACK and query gave up after the last permitted write
C2_Witness ==
    /\ result = "OSError_no_ack"
    /\ self_retries = 2
    /\ FramesWritten = 2
    /\ n_ack_reads = 2

\* C3: receive phase, failure path. Each frame that does not XOR to zero is
\* answered by one NAK byte (the request frame is not written again) and the
\* next attempt reads a whole frame from the header on; after `retries` such
\* frames OSError is raised, `retries` NAK bytes and no ACK byte written.
C3_RxFailInv ==
    /\ (got_ack /\ pc # "done") => NaksWritten = retries
    /\ got_ack => (n_rx_frames = NaksWritten + (IF pc \in {"rx_cmd", "rx_optlen",
                      "rx_data", "rx_checksum"} \/ result \in {"ValueError", "returned"}
                      THEN 1 ELSE 0))
    /\ (result = "OSError_no_pkg") =>
          /\ got_ack
          /\ NaksWritten = self_retries
          /\ n_rx_frames = self_retries
          /\ AcksWritten = 0
          /\ FramesWritten = n_ack_reads
          /\ Len(wire_out) = FramesWritten + NaksWritten

C3_RxFailStep ==
    /\ (pc = "rx_checksum" /\ pc' # pc /\ XorFold(pkg', Len(pkg')) # 0) =>
          /\ wire_out' = Append(wire_out, _nak)
          /\ retries' = retries + 1
          /\ pc' = "rx_loop"
    /\ (pc = "rx_loop" /\ pc' # pc) =>
          \/ pc' = "rx_cmd" /\ n_rx_frames' = n_rx_frames + 1 /\ pkg' = <<>>
          \/ pc' = "done" /\ result' = "OSError_no_pkg" /\ retries = self_retries

C3_RxFail == [](C3_RxFailInv) /\ [][C3_RxFailStep]_vars

\* three complete frames with a wrong checksum, three NAKs, then the error
C3_Witness ==
    /\ result = "OSError_no_pkg"
    /\ self_retries = 3
    /\ NaksWritten = 3
    /\ FrameComplete
    /\ FrameXor # 0

\* C4: query never returns unchecked bytes: what it returns is the data field
\* of the frame received last, and that frame XORs to zero; a frame that does
\* not XOR to zero is never returned.
C4_NoUncheckedBytes ==
    /\ (result = "returned") => (FrameJudged /\ ret = data /\ FrameXor = 0)
    /\ (FrameJudged /\ FrameXor # 0) => (result # "returned" /\ ret = <<>>)

\* a frame with a wrong checksum was received in full, and nothing was returned
C4_Witness ==
    /\ pc = "done"
    /\ FrameJudged
    /\ FrameComplete
    /\ Len(data) = 1
    /\ FrameXor # 0
    /\ result # "returned"

\* C5: a read that returns fewer bytes than asked for (a timeout) only ever
\* costs a retry; the one error query can then end in is the OSError of
\* exhausted retries.
C5_ShortReadsRetried ==
    (pc = "done") => result \in {"returned", "OSError_no_ack", "OSError_no_pkg"}

\* C6: query ends, after at most `retries` ACK-phase attempts followed by at
\* most `retries` receive-phase attempts.
C6_BoundedInv ==
    /\ FramesWritten <= Max0(self_retries)
    /\ n_ack_reads <= Max0(self_retries)
    /\ n_rx_frames <= Max0(self_retries)
    /\ retries <= Max0(self_retries)
    /\ (n_rx_frames > 0) => got_ack
    /\ got_ack => FramesWritten = n_ack_reads

C6_Terminates == [](C6_BoundedInv) /\ ((pc # "idle") ~> (pc = "done"))

\* both phases were used up to the last attempt before query ended
C6_Witness ==
    /\ pc = "done"
    /\ self_retries = 3
    /\ n_ack_reads = 3
    /\ n_rx_frames = 3

(***************************************************************************)
(* Claims on send_cmd                                                      *)
(***************************************************************************)
\* the exchange under send_cmd delivered a frame that query's contract returns
ExchangeDelivered == got_ack /\ FrameJudged /\ FrameComplete /\ FrameXor = 0

\* C7: when the exchange delivers one data byte, send_cmd reads it as the CSR
\* code: 0 ends it normally without warning, another code of the CSR table ends
\* it normally with a warning carrying the table's text, and an unknown code or
\* an empty payload ends it with a fatal error.
C7_CsrInterpreted ==
    (pc = "sc_done" /\ ExchangeDelivered /\ Len(data) <= 1) =>
        IF data = <<>> THEN sc_result \notin {"none", "ok"}
        ELSE IF data[1] = 0 THEN sc_result = "ok" /\ sc_warning = ""
        ELSE IF data[1] \in DOMAIN _csr_codes
             THEN sc_result = "ok" /\ sc_warning = _csr_codes[data[1]]
        ELSE sc_result \notin {"none", "ok"}

(***************************************************************************)
(* Claims on Profile B                                                     *)
(***************************************************************************)
\* the fields of the header the device sent, in the layout of line 101
ReplySwapped == b_header_as_short /\ b_byte_order = "little"
ReplyAddr == IF ReplySwapped THEN b_reply[3] ELSE b_reply[1]
ReplyFn == b_reply[2]
ReplyThird == IF ReplySwapped THEN b_reply[1] ELSE b_reply[3]

\* the header carries the configured address and a normal function code
HeaderPasses ==
    /\ Len(b_reply) >= 3
    /\ ReplyAddr = b_address
    /\ ReplyFn \in {FnRead, FnWrite}

ReplyData == SubSeq(b_reply, 4, 3 + ReplyThird)

\* header, the announced number of data bytes, and the CRC16 of both
GoodReadReply ==
    /\ HeaderPasses
    /\ Len(b_reply) = 3 + ReplyThird + 2
    /\ SubSeq(b_reply, 4 + ReplyThird, 5 + ReplyThird)
           = ToBytes(_crc16(Take(b_reply, 3) \o ReplyData), 2, b_byte_order)

\* C8: a read (_query_cmd with write_cmd=False) writes the request once, reads
\* a 3-byte header and, when address, function code and CRC of the reply are
\* right, returns exactly the reply's data bytes.
C8_ReadReturnsData ==
    (b_pc = "done" /\ ~b_write_cmd /\ GoodReadReply) =>
        /\ b_result = "returned"
        /\ b_ret = ReplyData
        /\ b_wire_out = <<b_pkg>>
        /\ b_asked = <<3, ReplyThird, 2>>

\* C9: _check_exception returns without error for function code 0x41 or 0x42,
\* and for any other raises OSError carrying the exception code and its text
\* from the table ('Unknown' for a code not in it).
C9_ExceptionIff ==
    (b_pc = "ce_done") =>
        IF b_fn_code[1] \in {FnRead, FnWrite}
        THEN b_result = "returned"
        ELSE /\ b_result = "OSError"
             /\ b_error = <<b_exc_code[1], ExceptionText(b_exc_code[1])>>

\* C10: a write (_query_cmd with write_cmd=True), once the header has passed
\* the address and exception checks, reads len(sent frame) - 3 further bytes
\* and returns normally exactly when header plus those bytes equal the frame
\* sent; any difference, a short read too, is a fatal error.
C10_EchoVerified ==
    (b_pc = "done" /\ b_write_cmd /\ HeaderPasses) =>
        /\ (b_result = "returned") <=> (Take(b_reply, Len(b_pkg)) = b_pkg)
        /\ (b_result = "returned") => (b_asked = <<3, Len(b_pkg) - 3>>)
        /\ (b_result # "returned") => (b_result # "none" /\ b_ret = <<>>)

\* the reply carries the configured address, and after its announced data the
\* CRC16 of header and data in the configured byte order
ReplyChecked ==
    /\ Len(b_reply) >= 3
    /\ ReplyAddr = b_address
    /\ Len(b_reply) >= 3 + ReplyThird + 2
    /\ SubSeq(b_reply, 4 + ReplyThird, 5 + ReplyThird)
           = ToBytes(_crc16(Take(b_reply, 3) \o ReplyData), 2, b_byte_order)

\* C11: a read never returns unchecked bytes: when _query_cmd returns data, the
\* reply's address is the configured one and its CRC bytes are the CRC16 of
\* header and data, and the data returned is the reply's; on a reply with
\* another address or another CRC the call ends in an error and returns nothing.
C11_NoUncheckedBytesB ==
    (b_pc = "done" /\ ~b_write_cmd) =>
        /\ (b_result = "returned") => (ReplyChecked /\ b_ret = ReplyData)
        /\ (~ReplyChecked) => (b_result \notin {"none", "returned"} /\ b_ret = <<>>)

\* a reply to a read from the configured address whose CRC is damaged: the call
\* failed and returned nothing
C11_Witness ==
    /\ b_pc = "done"
    /\ ~b_write_cmd
    /\ Len(b_reply) = 6
    /\ ReplyAddr = b_address
    /\ ReplyFn = FnRead
    /\ ReplyThird = 1
    /\ ~ReplyChecked
    /\ b_result \notin {"none", "returned"}
    /\ b_ret = <<>>

(***************************************************************************)
(* Claims on the frames Profile A builds                                   *)
(***************************************************************************)
\* _make_pkg was called; its arguments and the frame it returned
PkgMade == e_pc = "done" /\ e_op = "make_pkg"
PayloadLen == Len(e_data.v)
Frame == e_out.v

\* C12: for every address 0-31 and payload length L up to 255, _make_pkg
\* succeeds; the first byte of the frame has the address in bits 7-3; for L in
\* 0..6 bits 2-0 are L and no extension byte follows the command; for L in
\* 7..255 bits 2-0 are 7 and the third byte is L; then the L data bytes and one
\* checksum byte.
C12_HeaderLength ==
    (PkgMade /\ ~self_bit_order_reversed /\ e_args[1] <= 255 /\ PayloadLen <= 255) =>
        /\ e_out.err = ""
        /\ Frame[1] \div 8 = self_address
        /\ IF PayloadLen <= 6
           THEN /\ Frame[1] % 8 = PayloadLen
                /\ Len(Frame) = 2 + PayloadLen + 1
                /\ SubSeq(Frame, 3, 2 + PayloadLen) = e_data.v
           ELSE /\ Frame[1] % 8 = 7
                /\ Frame[3] = PayloadLen
                /\ Len(Frame) = 3 + PayloadLen + 1
                /\ SubSeq(Frame, 4, 3 + PayloadLen) = e_data.v

\* a frame came back from _make_pkg, called directly or after _make_data
FrameBuilt == e_pc = "done" /\ e_op \in {"make_pkg", "encode"} /\ e_out.err = ""

\* bit k is set in an even number of the bytes of s
EvenParity(s, k) ==
    Cardinality({i \in DOMAIN s : (s[i] \div Pow2(k)) % 2 = 1}) % 2 = 0

\* C13: in every frame _make_pkg returns (any address, command, payload,
\* bit-reversal setting) the last byte is the XOR of all bytes before it, so
\* the XOR of the whole frame is 0: every bit is set in an even number of bytes.
C13_IntegrityByte ==
    FrameBuilt =>
        /\ Len(Frame) >= 3
        /\ Frame[Len(Frame)] = XorFold(Frame, Len(Frame) - 1)
        /\ \A k \in 0..7 : EvenParity(Frame, k)

\* a frame with three data bytes built under bit-reversal at address 2
C13_Witness ==
    /\ FrameBuilt
    /\ e_op = "make_pkg"
    /\ self_bit_order_reversed
    /\ self_address = 2
    /\ e_data.v = <<1, 2, 3>>
    /\ Len(Frame) = 6

\* one byte with its 8 bits in reverse order, and a bytes object so treated
Rev8(b) == RevBits(b, 8)
Rev8All(s) == [i \in DOMAIN s |-> Rev8(s[i])]

\* an integer was made into a frame; the arguments of the call
IntEncoded == e_pc = "done" /\ e_op = "encode"
EncCmd == e_args[1]
EncLength == e_args[2]
EncValue == e_args[3]

\* header, command and data of the frame for that integer without bit-reversal
\* (the byte lengths used stay below 7: no length-extension byte)
PlainBody ==
    <<(self_address * 8) + EncLength, EncCmd>>
        \o ToBytes(EncValue, EncLength, self_byte_order)

\* C14: with bit-reversal enabled, the frame for an integer payload (_make_data,
\* then _make_pkg) is the frame without bit-reversal with each byte of header,
\* command and data reversed on its own, followed by the XOR of those reversed
\* bytes, itself not reversed; for every value that fits the byte length,
\* values above 255 too.
C14_ReversalPerByte ==
    (IntEncoded /\ self_bit_order_reversed /\ EncValue < Pow256(EncLength)) =>
        /\ e_out.err = ""
        /\ Frame = Rev8All(PlainBody)
                       \o <<XorFold(Rev8All(PlainBody), Len(PlainBody))>>

\* the header _make_pkg computes for the payload, and the bytes it puts before
\* the data: header, command and, above 6 data bytes, the length
MadeCmd == e_args[1]
MadeHeader == _make_header(self_address, PayloadLen)
MadeHead ==
    IF PayloadLen <= 6 THEN <<MadeHeader, MadeCmd>>
    ELSE <<MadeHeader, MadeCmd, PayloadLen>>

\* C15: with bit-reversal enabled _make_pkg reverses the bits of the header
\* byte, the command byte and, when present, the length-extension byte, appends
\* the data bytes as they were passed in, and then the XOR of all these bytes;
\* address 2, command 3, data 1 2 3 gives 0b11001000 0b11000000 1 2 3 and the
\* checksum.
C15_ReversalInMakePkg ==
    /\ (PkgMade /\ self_bit_order_reversed /\ MadeCmd <= 255 /\ PayloadLen <= 255
           /\ MadeHeader <= 255) =>
           /\ e_out.err = ""
           /\ Frame = Rev8All(MadeHead) \o e_data.v
                  \o <<XorFold(Rev8All(MadeHead) \o e_data.v,
                               Len(MadeHead) + PayloadLen)>>
    /\ (PkgMade /\ self_bit_order_reversed /\ self_address = 2 /\ MadeCmd = 3
           /\ e_data.v = <<1, 2, 3>>) =>
           Frame = <<200, 192, 1, 2, 3, 8>>

\* the frame of test_make_pkg under bit-reversal
C15_Witness ==
    /\ PkgMade
    /\ self_bit_order_reversed
    /\ self_address = 2
    /\ MadeCmd = 3
    /\ e_data.v = <<1, 2, 3>>
    /\ Frame = <<200, 192, 1, 2, 3, 8>>

\* the ACK and NAK bytes under the bit-reversal setting in force
AckExpected == <<IF self_bit_order_reversed THEN 96 ELSE AckByte>>
NakExpected == <<IF self_bit_order_reversed THEN 168 ELSE NakByte>>

\* C16: in every exchange made while bit-reversal is enabled, the byte query
\* takes for ACK and writes as ACK is 0x60 and the byte it writes as NAK is
\* 0xA8; while bit-reversal is disabled they are 0x06 and 0x15.
C16_AckNakFollowSetting ==
    /\ got_ack => response = AckExpected
    /\ \A i \in DOMAIN wire_out :
          wire_out[i] = package \/ wire_out[i] \in {AckExpected, NakExpected}

\* _make_pkg was called, by itself or by a setter, with more than 255 data
\* bytes or a command number above 255
OverLimit ==
    /\ e_op \in {"make_pkg", "setter"}
    /\ (PayloadLen > 255 \/ MadeCmd > 255)

\* C17: _make_pkg raises ValueError and returns no frame whenever the payload
\* is longer than 255 bytes or the command number is above 255, and nothing is
\* written to the port; a setter building its frame from such inputs ends
\* there, before send_cmd starts an exchange.
C17_EncodeTimeRejection ==
    OverLimit =>
        /\ e_pc = "done"
        /\ e_out = Raised("ValueError")
        /\ pc = "idle"
        /\ package = <<>>
        /\ wire_out = <<>>

\* a setter given command number 256 under bit-reversal: rejected, nothing sent
C17_Witness ==
    /\ e_pc = "done"
    /\ e_op = "setter"
    /\ MadeCmd = 256
    /\ self_bit_order_reversed
    /\ e_out = Raised("ValueError")
    /\ wire_out = <<>>

\* an assignment to address was made; the value assigned
AddressAssigned == e_pc = "done" /\ e_op = "address"
AssignedValue == e_args[1]

\* C18: the stored address is always within 0..31; an assignment of a value
\* below 0 or above 31 raises ValueError and leaves the stored address as it
\* was, and an assignment of a value in 0..31 stores exactly that value.
C18_AddressInv ==
    /\ self_address \in 0..31
    /\ AddressAssigned =>
          IF AssignedValue \in 0..31
          THEN e_out.err = "" /\ self_address = AssignedValue
          ELSE e_out = Raised("ValueError")

C18_AddressStep ==
    (e_op' = "address" /\ e_pc = "idle" /\ e_pc' = "done"
        /\ e_args'[1] \notin 0..31) => self_address' = self_address

C18_Address == [](C18_AddressInv) /\ [][C18_AddressStep]_vars

\* 32 was assigned after 31: rejected, and the address is still 31
C18_Witness ==
    /\ AddressAssigned
    /\ AssignedValue = 32
    /\ e_out = Raised("ValueError")
    /\ self_address = 31

(***************************************************************************)
(* Claims on the frames Profile B builds                                   *)
(***************************************************************************)
\* CitoPlus1310._make_pkg returned; its arguments and the parts of the frame
PkgMadeB == e_pc = "done" /\ e_op = "make_pkg_b" /\ e_out.err = ""
IsRead == e_data.t = "None"
Register == e_args[1]
DataLength == e_args[2]
FrameHeader == SubSeq(Frame, 1, 2)
FrameRegister == SubSeq(Frame, 3, 4)
FramePayload == SubSeq(Frame, 5, Len(Frame) - 2)
FrameCrc == SubSeq(Frame, Len(Frame) - 1, Len(Frame))

\* a 16-bit value as two bytes in the configured byte order
Short(n) ==
    IF b_byte_order = "little" THEN <<n % 256, n \div 256>>
    ELSE <<n \div 256, n % 256>>

\* C19: the frame of _make_pkg is header (2 bytes), register (2 bytes in the
\* configured byte order), payload, and the CRC16 of all that (2 bytes in the
\* configured byte order); the function code is 0x41 exactly for data None and
\* 0x42 otherwise; header-as-short swaps address and function code when the
\* byte order is little and leaves them when it is big, and changes nothing of
\* register and payload.
C19_FrameLayoutB ==
    PkgMadeB =>
        /\ Len(Frame) = 4 + (IF IsRead THEN 2 ELSE DataLength) + 2
        /\ FrameHeader =
              (IF b_header_as_short /\ b_byte_order = "little"
               THEN <<IF IsRead THEN 65 ELSE 66, b_address>>
               ELSE <<b_address, IF IsRead THEN 65 ELSE 66>>)
        /\ FrameRegister = Short(Register)
        /\ (~IsRead) => FramePayload = ToBytes(e_data.v[1], DataLength, b_byte_order)
        /\ FrameCrc = Short(_crc16(SubSeq(Frame, 1, Len(Frame) - 2)))

\* register 1001 written with the value 258 in 4 bytes, header as short, little
C19_Witness ==
    /\ PkgMadeB
    /\ b_header_as_short
    /\ b_byte_order = "little"
    /\ Register = 1001
    /\ e_data.v = <<258>>
    /\ DataLength = 4
    /\ SubSeq(Frame, 1, 8) = <<66, 10, 233, 3, 2, 1, 0, 0>>

\* C20 as stated: in a read frame the two payload bytes after the register are
\* the item count 0x0001 and are the same two bytes under either byte order.
C20_ReadPayloadFixed ==
    (PkgMadeB /\ IsRead) =>
        /\ FramePayload = ItemCount("little")
        /\ FramePayload = ItemCount("big")

\* C20, amended: in a read frame the two payload bytes after the register are
\* the item count 1 as a 2-byte integer in the configured byte order: 01 00
\* when it is little, 00 01 when it is big.
C20_ReadPayloadInOrder ==
    (PkgMadeB /\ IsRead) =>
        FramePayload = (IF b_byte_order = "little" THEN <<1, 0>> ELSE <<0, 1>>)

\* the read frame of test_make_pkg under byte order big
C20_Witness ==
    /\ PkgMadeB
    /\ IsRead
    /\ Register = 1
    /\ b_byte_order = "big"
    /\ SubSeq(Frame, 1, 6) = <<10, 65, 0, 1, 0, 1>>

(***************************************************************************)
(* Claims on offline instruments                                           *)
(***************************************************************************)
\* C21: on an instrument built with offline=True a command (Cesar1312.query,
\* send_cmd and the setters on them; CitoPlus1310._query_cmd, _write_cmd and the
\* properties on them) reads and writes nothing and returns normally.
C21_OfflineSendsNothing ==
    /\ self_offline =>
          /\ wire_out = <<>>
          /\ n_ack_reads = 0
          /\ n_rx_reads = 0
          /\ (pc = "done") => result = "returned"
          /\ (pc = "sc_done") => sc_result = "ok"
    /\ b_offline =>
          /\ b_wire_out = <<>>
          /\ b_reads = <<>>
          /\ (b_pc = "done") => b_result = "returned"
          /\ (b_pc = "prop_done") => b_prop = "returned"


\* the two phases of query in order: nothing of the receive phase is read
\* before the ACK, the request frame is written in the ACK phase only, and the
\* receive phase counts its attempts from zero
PhasesInOrder ==
    /\ (n_rx_reads > 0 \/ n_rx_frames > 0) => got_ack
    /\ got_ack => (FramesWritten = n_ack_reads /\ response = _ack)
    /\ (pc \in {"rx_loop", "rx_cmd", "rx_optlen", "rx_data", "rx_checksum"}) =>
          /\ got_ack
          /\ retries = NaksWritten
          /\ retries <= self_retries
    /\ (result = "OSError_no_pkg") => n_rx_frames = self_retries

\* the exchange used every ACK attempt and every receive attempt, and the
\* frame of the last receive attempt is complete and XORs to zero
LastAttemptValid ==
    /\ pc = "done"
    /\ got_ack
    /\ n_ack_reads = self_retries
    /\ n_rx_frames = self_retries
    /\ FrameJudged
    /\ FrameComplete
    /\ FrameXor = 0

\* C22: the phases of query are sequential and independently budgeted: no
\* receive-phase read before the ACK has been read, no further write of the
\* request frame after it, and the receive phase has the full `retries`
\* attempts however many the ACK phase used, so that an exchange which needed
\* `retries` ACK attempts and got `retries - 1` invalid frames still returns
\* the data of a valid last frame.
C22_PhasesIndependent ==
    /\ PhasesInOrder
    /\ LastAttemptValid => (result = "returned" /\ ret = data)

(***************************************************************************)
(* Claims on the exchange of Profile B                                     *)
(***************************************************************************)
\* the reply fails one of the validations of _query_cmd: address, exception
\* function code, and the echo of a write or the CRC of a read
ValidationFails ==
    \/ ~HeaderPasses
    \/ IF b_write_cmd THEN Take(b_reply, Len(b_pkg)) # b_pkg ELSE ~ReplyChecked

\* _query_cmd is running, or has ended, on a connected instrument
QueryCmdRun == b_pc \in {"sent", "done"} /\ ~b_offline

C23_SingleWriteInv ==
    QueryCmdRun =>
        /\ b_wire_out = <<b_pkg>>
        /\ (b_pc = "sent") => (b_reads = <<>> /\ b_asked = <<>>)
        /\ (b_pc = "done" /\ ValidationFails) =>
              (b_result \notin {"none", "returned"} /\ b_ret = <<>>)

C23_SingleWriteStep ==
    /\ (b_pc = "sent") => (b_wire_out' = b_wire_out /\ b_pc' \in {"sent", "done"})
    /\ (b_pc' = "sent" /\ b_pc # "sent") => b_wire_out = <<>>

\* C23: Profile B has no retry and no ACK/NAK. In every run of _query_cmd on a
\* connected instrument the request frame is written exactly once, before any
\* read, and nothing else is ever written; a reply that fails a validation
\* (address, exception, CRC, echo) ends the call in an error after that write.
C23_SingleWrite == [](C23_SingleWriteInv) /\ [][C23_SingleWriteStep]_vars

\* a write whose echo came back damaged in its last byte: the header passed,
\* bytes were read, the call failed, and the frame is all that was written
C23_Witness ==
    /\ b_pc = "done"
    /\ ~b_offline
    /\ b_write_cmd
    /\ b_reply = Corrupt(b_pkg)
    /\ HeaderPasses
    /\ ValidationFails
    /\ b_reads # <<>>
    /\ b_result \notin {"none", "returned"}
    /\ b_wire_out = <<b_pkg>>

(***************************************************************************)
(* Claims on the retry count                                               *)
(***************************************************************************)
\* query runs, or has ended, under a retry count that is not positive
NonPositiveRun == pc # "idle" /\ self_retries <= 0

C24_NonPositiveInv ==
    NonPositiveRun =>
        /\ pc \in {"ack_loop", "done"}
        /\ wire_out = <<>>
        /\ n_ack_reads = 0
        /\ n_rx_reads = 0
        /\ n_rx_frames = 0
        /\ ~got_ack
        /\ (pc = "done") => (result = "OSError_no_ack" /\ ret = <<>>)

\* an assignment to retries stores the value and does nothing else; query
\* under a count that is not positive goes from its first loop test to OSError
C24_NonPositiveStep ==
    /\ (self_retries' # self_retries) =>
          (pc = "idle" /\ pc' = "idle" /\ result' = result /\ wire_out' = wire_out)
    /\ (NonPositiveRun /\ pc = "ack_loop" /\ pc' # pc) =>
          (pc' = "done" /\ result' = "OSError_no_ack")

\* C24: the retries setter accepts any value without validation, and with
\* retries zero or negative query raises OSError (no ACK) without a single
\* write to or read from the transport.
C24_NonPositiveRetries == [](C24_NonPositiveInv) /\ [][C24_NonPositiveStep]_vars

\* retries was set to -1 and query ended at once, nothing written or read
C24_Witness ==
    /\ self_retries = 0 - 1
    /\ pc = "done"
    /\ result = "OSError_no_ack"
    /\ wire_out = <<>>
    /\ n_ack_reads = 0

(***************************************************************************)
(* Claims on the header functions of Profile A                             *)
(***************************************************************************)
HeaderParsed == e_pc = "done" /\ e_op = "parse_header"
HeaderRoundTrip == e_pc = "done" /\ e_op = "round_trip"

\* b >> 3 and b & 7 of a byte value
ShiftRight3(b) == b \div 8
Low3(b) == b % 8

\* C25: for every address 0..31 and length selector 0..7, _parse_header of the
\* byte made from _make_header(address, selector) returns (address, selector);
\* and for every byte value 0..255 _parse_header returns (byte >> 3, byte & 7).
C25_HeaderRoundTrip ==
    /\ HeaderRoundTrip =>
          /\ e_args[1] \in HeaderAddresses
          /\ e_args[2] \in Selectors
          /\ e_out = Returned(<<e_args[1], e_args[2]>>)
    /\ HeaderParsed =>
          e_out = Returned(<<ShiftRight3(e_args[1]), Low3(e_args[1])>>)

\* address 2 with selector 7 made the byte 0b00010111, which parsed to (2, 7)
C25_Witness ==
    /\ HeaderRoundTrip
    /\ e_args = <<2, 7>>
    /\ e_data = PyBytes(<<23>>)
    /\ e_out = Returned(<<2, 7>>)
====
